---- MODULE Spec2Model ----
(***************************************************************************)
(* Model of the peer-to-peer core of go-blockchain:                        *)
(*   - the UDP discovery transport and its pending-request registry        *)
(*     (package discover: udp.taskLoop, udp.readLoop, addPending,          *)
(*     handleReply, the packet handlers, decodePacket, ping, findnode,     *)
(*     waitping);                                                          *)
(*   - the TCP gossip node and its connection pool (package dpos:          *)
(*     Node.connect, Node.handleAccept, handshake, handShakeCheck,         *)
(*     connPool.add, connection.send/recv, Node.loop).                     *)
(* The two subsystems share no state; each has its own specification       *)
(* (DiscoverSpec, GossipSpec) over the variables of the module.            *)
(***************************************************************************)
EXTENDS Integers, Sequences, FiniteSets, TLC

(***************************************************************************)
(* Program constants                                                       *)
(***************************************************************************)
pingPacket == 1
pongPacket == 2
findnodePacket == 3
replynodePacket == 4

\* time.Now().Add(1 * time.Minute).Unix(): the deadline offset, in seconds
Minute == 60
\* make(chan *pending, 10), make(chan gotreply, 10)
ChanCap == 10
\* make(chan error, 1), make(chan bool, 1)
ResultCap == 1
\* decodePacket: one type byte and a 16-byte NodeID precede the payload
HeaderLen == 17

(***************************************************************************)
(* Bounds of the discovery model                                           *)
(***************************************************************************)
\* number of calls of ping / findnode / waitping
MaxReq == 2
\* number of results (datagram, io.EOF, error) ReadFromUDP returns, not
\* counting the pongs that answer this node's pings
MaxRecv == 1
\* the clock is read at 0 and at Minute + s for s <= MaxSkew
MaxSkew == 1

MaxTime == Minute + MaxSkew
Reqs == 1..MaxReq

\* error values
ErrNil == "nil"
errListTimeout == "queue time out"
errPendingExit == "udp pending exit"

(***************************************************************************)
(* Discovery state                                                         *)
(***************************************************************************)
VARIABLES
  now,        \* time.Now().Unix()
  tpc,        \* taskLoop: "clear" (before listClear), "select", "stuck"
  plist,      \* taskLoop's plist: the requests (pointers to pending) in order
  pendingCh,  \* t.pending (buffered)
  replyCh,    \* t.gotreply (buffered)
  matchedCh,  \* the matched channel of the reply being delivered (capacity 1)
  typ,        \* per call: pending.typ (0 before the call)
  cpc,        \* per call: "idle", "wait" (blocked on errc), "done"
  errch,      \* per call: the channel addPending made (capacity 1)
  deadline,   \* per call: pending.deadline
  ret,        \* per call: the error the caller received from errch
  nodes,      \* findnode: the closure variable nodes
  out,        \* findnode: the returned slice
  rpc,        \* readLoop: "read", "waitmatch", "exiting", "done", "crashed"
              \* (a panic ended the process)
  replied,    \* number of pong / replynode packets the handlers have sent
  nread,      \* results ReadFromUDP has returned so far
  inbox,      \* pongs in flight, tagged with the ping call that caused them
  \* history variables
  delivered,  \* per call: the results the registry loop sent on errch
  acceptedAt, \* per call: clock when the loop accepted it (-1: not yet)
  pongInTime, \* per ping: its pong reached the read loop before the deadline
  gotData     \* per call: the reply payloads its callback accepted

dvars == <<now, tpc, plist, pendingCh, replyCh, matchedCh, typ, cpc, errch,
           deadline, ret, nodes, out, rpc, replied, nread, inbox,
           delivered, acceptedAt, pongInTime, gotData>>

(***************************************************************************)
(* Gossip node: program constants and bounds                               *)
(***************************************************************************)
packReqGetID == 1
packRspGetID == 2
packHeartBeat == 3
packBlockData == 4

\* connPool.add: ctyp 1 is the accepted (read) side, 2 the dialled (write) side
ctypRead == 1
ctypWrite == 2

\* the empty string, the zero value of an identity
EmptyID == 0

\* number of connection tasks: Node.connect for a configured peer, or
\* Node.handleAccept for an accepted socket
MaxTask == 2
\* number of identities peers may claim
MaxId == 1
\* number of blocks the producer emits
MaxBlocks == 1
\* number of reads the accept tasks' receive loops complete
MaxMsg == 1

Tasks == 1..MaxTask
PeerIds == 1..MaxId
Ids == {EmptyID} \cup PeerIds
SelfID == MaxId + 1
Blocks == 1..MaxBlocks

\* task t owns socket t: the one it dialled or the one it was started for
NoSock == 0
Sock(t) == t

(***************************************************************************)
(* Gossip state                                                            *)
(***************************************************************************)
VARIABLES
  set,          \* connPool.set: identity -> connection (0: no entry)
  conns,        \* the connection objects allocated, in order; the broadcast
                \* channel of connection i is channel i
  role,         \* per task: "none", "out" (connect), "in" (handleAccept)
  gpc,          \* per task: "idle"; connect: "handshake", "failed",
                \* "subscribe", "loop", "write"; handleAccept: "check",
                \* "failed", "recv", "reading", "closed"
  hsbuf,        \* per task: what c.Read returned in handshake / handShakeCheck
  rid,          \* per task: rid
  conn,         \* per task: conn, the pointer add returned
  rsock,        \* handleAccept: the socket the running conn.recv reads
  bmsg,         \* connect: the message received from conn.broadcast
  subs,         \* the broadcast bus: the channels subscribed, in order
  lpc,          \* Node.loop: "idle", "sending" (inside broad.Send)
  todo,         \* broad.Send: the subscriptions not yet delivered to
  cur,          \* broad.Send: the message being sent
  nblocks,      \* blocks produced so far
  nmsg,         \* reads completed by the receive loops so far
  written,      \* per socket: the frames written to it
  closed,       \* the sockets closed by this node
  chain,        \* blockChain.add: the blocks submitted
  chainPending, \* blockChain.pending: the blocks marked pending
  \* history variable
  activeAt      \* per block: the connect tasks subscribed when it was published

gvars == <<set, conns, role, gpc, hsbuf, rid, conn, rsock, bmsg, subs, lpc,
           todo, cur, nblocks, nmsg, written, closed, chain, chainPending,
           activeAt>>

(***************************************************************************)
(* Datagrams and decodePacket                                              *)
(***************************************************************************)
\* a discovered node; valid is the outcome of Node.Validate()
NodeA == [id |-> "a", valid |-> TRUE]
NodeB == [id |-> "b", valid |-> FALSE]
NodeC == [id |-> "c", valid |-> TRUE]
NodeLists == {<<>>, <<NodeB>>, <<NodeC, NodeB, NodeA>>}

\* a datagram: its length, its first byte, whether the bytes after the
\* header decode as JSON of the variant, and the Nodes field of a replynode
Dgram(n, t, b, ns) == [len |-> n, typ |-> t, body |-> b, nodes |-> ns]

ShortDgrams == {Dgram(0, 0, "bad", <<>>), Dgram(16, pongPacket, "ok", <<>>)}
UnknownTypDgrams == {Dgram(40, 0, "ok", <<>>), Dgram(40, 5, "ok", <<>>)}
BadBodyDgrams == {Dgram(17, pongPacket, "bad", <<>>)}
MalformedDgrams == ShortDgrams \cup UnknownTypDgrams \cup BadBodyDgrams
PongDgram == Dgram(40, pongPacket, "ok", <<>>)
GoodDgrams == {Dgram(40, pingPacket, "ok", <<>>), PongDgram,
               Dgram(40, findnodePacket, "ok", <<>>)}
              \cup {Dgram(40, replynodePacket, "ok", ns) : ns \in NodeLists}
Datagrams == MalformedDgrams \cup GoodDgrams

\* the packet variant the switch on buf[0] allocates (0: pack stays nil)
packOf(t) == IF t \in {pingPacket, pongPacket, findnodePacket, replynodePacket}
             THEN t ELSE 0

\* decodePacket(buf): "panic" (index or slice bounds out of range), "error"
\* (the JSON decoder's error) or "ok" with the packet
decodePacket(buf) ==
  IF buf.len < 1 THEN [res |-> "panic", typ |-> 0]              \* buf[0]
  ELSE IF buf.len < HeaderLen THEN [res |-> "panic", typ |-> 0] \* buf[17:]
  ELSE IF packOf(buf.typ) = 0 THEN [res |-> "error", typ |-> 0] \* Decode(nil)
  ELSE IF buf.body # "ok" THEN [res |-> "error", typ |-> 0]
  ELSE [res |-> "ok", typ |-> packOf(buf.typ)]

\* expire(ts) returns false for every ts
expire(ts) == FALSE

(***************************************************************************)
(* The registry loop                                                       *)
(***************************************************************************)
\* pl.Next() after plist.Remove(pl): Remove clears the element's links, so
\* Next() yields nil and the for loop ends.  Positions are those of the
\* list as it was when the walk began.
NextAfterRemove(l, i) == Len(l) + 1

\* a comparison that also holds at the deadline itself
isExpiredLe(dl, t) == dl <= t

\* v.deadline < time.Now().Unix()
isExpired(dl, t) == dl < t

\* listClear: positions of the requests the sweep resolves at clock t
RECURSIVE listClearFrom(_, _, _)
listClearFrom(l, i, t) ==
  IF i > Len(l) THEN {}
  ELSE IF isExpired(deadline[l[i]], t)
       THEN {i} \cup listClearFrom(l, NextAfterRemove(l, i), t)
       ELSE listClearFrom(l, i + 1, t)

\* the callbacks of ping, waitping and findnode all return true
callback(r, data) == TRUE

\* a walk that resolves the request of the reply's type registered last
replyFromLast(l, i, rep) ==
  LET M == {k \in i..Len(l) : rep.typ = typ[l[k]]}
  IN IF M = {} THEN {} ELSE {CHOOSE k \in M : \A m \in M : m <= k}

\* the gotreply case: positions of the requests resolved by a reply
RECURSIVE replyFrom(_, _, _)
replyFrom(l, i, rep) ==
  IF i > Len(l) THEN {}
  ELSE IF rep.typ = typ[l[i]] /\ callback(l[i], rep.data)
       THEN {i} \cup replyFrom(l, NextAfterRemove(l, i), rep)
       ELSE replyFrom(l, i + 1, rep)

\* match is set to true in every iteration of the gotreply loop
replyMatch(l, rep) == Len(l) > 0

\* a removal that leaves the list as it is
RemoveAtNone(l, P, i) == l

\* plist.Remove of the elements at positions P
RECURSIVE RemoveAt(_, _, _)
RemoveAt(l, P, i) ==
  IF i > Len(l) THEN <<>>
  ELSE IF i \in P THEN RemoveAt(l, P, i + 1)
       ELSE <<l[i]>> \o RemoveAt(l, P, i + 1)

ReqsAt(l, P) == {l[i] : i \in P}

\* the nodes of a replynode that pass n.Validate(), in order
RECURSIVE validNodes(_)
validNodes(ns) ==
  IF ns = <<>> THEN <<>>
  ELSE IF Head(ns).valid THEN <<Head(ns)>> \o validNodes(Tail(ns))
       ELSE validNodes(Tail(ns))

\* a callback that appends the nodes of the reply unvalidated
appendAll(acc, ns) == acc \o ns

\* findnode's callback: append the valid nodes of the reply to nodes
findnodeCallback(acc, ns) == acc \o validNodes(ns)

\* a send that finds no receiver and no room in the channel
sendBlocksAlways(ch, cap) == Len(ch) >= 0

\* a send on a buffered channel blocks while the buffer is full
sendBlocks(ch, cap) == Len(ch) >= cap

Alive == rpc # "crashed"

\* listClear(), then the loop blocks in select
ListClear ==
  /\ Alive
  /\ tpc = "clear"
  /\ LET P == listClearFrom(plist, 1, now)
         R == ReqsAt(plist, P)
     IN IF \E r \in R : sendBlocks(errch[r], ResultCap)
        THEN /\ tpc' = "stuck"
             /\ UNCHANGED <<plist, errch, delivered>>
        ELSE /\ tpc' = "select"
             /\ plist' = RemoveAt(plist, P, 1)
             /\ errch' = [r \in Reqs |-> IF r \in R
                                         THEN Append(errch[r], errListTimeout)
                                         ELSE errch[r]]
             /\ delivered' = [r \in Reqs |-> IF r \in R
                                             THEN Append(delivered[r], errListTimeout)
                                             ELSE delivered[r]]
  /\ UNCHANGED <<now, pendingCh, replyCh, matchedCh, typ, cpc, deadline,
                 ret, nodes, out, rpc, replied, nread, inbox, acceptedAt,
                 pongInTime, gotData>>
  /\ UNCHANGED gvars

\* the deadline given to a request the loop accepts at clock t
newDeadline(t) == t + Minute

\* case p := <-t.pending
RecvPending ==
  /\ Alive
  /\ tpc = "select"
  /\ pendingCh # <<>>
  /\ LET p == Head(pendingCh)
     IN /\ deadline' = [deadline EXCEPT ![p] = newDeadline(now)]
        /\ acceptedAt' = [acceptedAt EXCEPT ![p] = now]
        /\ plist' = Append(plist, p)
  /\ pendingCh' = Tail(pendingCh)
  /\ tpc' = "clear"
  /\ UNCHANGED <<now, replyCh, matchedCh, typ, cpc, errch, ret, nodes, out,
                 rpc, replied, nread, inbox, delivered, pongInTime, gotData>>
  /\ UNCHANGED gvars

\* case r := <-t.gotreply
RecvReply ==
  /\ Alive
  /\ tpc = "select"
  /\ replyCh # <<>>
  /\ LET rep == Head(replyCh)
         P == replyFrom(plist, 1, rep)
         R == ReqsAt(plist, P)
     IN IF (\E r \in R : sendBlocks(errch[r], ResultCap))
           \/ sendBlocks(matchedCh, ResultCap)
        THEN /\ tpc' = "stuck"
             /\ UNCHANGED <<plist, errch, delivered, nodes, gotData, matchedCh>>
        ELSE /\ tpc' = "clear"
             /\ plist' = RemoveAt(plist, P, 1)
             /\ nodes' = [r \in Reqs |->
                            IF r \in R /\ typ[r] = replynodePacket
                            THEN findnodeCallback(nodes[r], rep.data)
                            ELSE nodes[r]]
             /\ gotData' = [r \in Reqs |-> IF r \in R
                                           THEN Append(gotData[r], rep.data)
                                           ELSE gotData[r]]
             /\ errch' = [r \in Reqs |-> IF r \in R THEN Append(errch[r], ErrNil)
                                         ELSE errch[r]]
             /\ delivered' = [r \in Reqs |-> IF r \in R
                                             THEN Append(delivered[r], ErrNil)
                                             ELSE delivered[r]]
             /\ matchedCh' = Append(matchedCh, replyMatch(plist, rep))
  /\ replyCh' = Tail(replyCh)
  /\ UNCHANGED <<now, pendingCh, typ, cpc, deadline, ret, out, rpc, replied,
                 nread, inbox, acceptedAt, pongInTime>>
  /\ UNCHANGED gvars

(***************************************************************************)
(* The callers: ping, findnode, waitping                                   *)
(***************************************************************************)
\* calls are numbered in the order they begin
CanBegin(r) == cpc[r] = "idle" /\ (IF r = 1 THEN TRUE ELSE cpc[r - 1] # "idle")

\* addPending(t, call): either the send on t.pending or the receive from
\* t.exit (the read loop is blocked sending on it) is taken
addPending(r, t, viaExit) ==
  /\ CanBegin(r)
  /\ typ' = [typ EXCEPT ![r] = t]
  /\ cpc' = [cpc EXCEPT ![r] = "wait"]
  /\ IF viaExit
     THEN /\ rpc = "exiting"
          /\ rpc' = "done"
          /\ errch' = [errch EXCEPT ![r] = Append(@, errPendingExit)]
          /\ UNCHANGED pendingCh
     ELSE /\ Len(pendingCh) < ChanCap
          /\ pendingCh' = Append(pendingCh, r)
          /\ UNCHANGED <<rpc, errch>>

\* ping(to) up to err := <-errc: addPending(pongPacket, ...), then
\* sendMessage(pingPacket, ...); a live target answers with a pong
Ping(r, live, viaExit) ==
  /\ Alive
  /\ addPending(r, pongPacket, viaExit)
  /\ inbox' = IF live THEN inbox \cup {r} ELSE inbox
  /\ UNCHANGED <<now, tpc, plist, replyCh, matchedCh, deadline, ret, nodes,
                 out, replied, nread, delivered, acceptedAt, pongInTime,
                 gotData>>
  /\ UNCHANGED gvars

\* waitping() up to the receive from the channel addPending returned
WaitPing(r, viaExit) ==
  /\ Alive
  /\ addPending(r, pongPacket, viaExit)
  /\ UNCHANGED <<now, tpc, plist, replyCh, matchedCh, deadline, ret, nodes,
                 out, replied, nread, inbox, delivered, acceptedAt,
                 pongInTime, gotData>>
  /\ UNCHANGED gvars

\* findnode(to) up to err := <-errc: addPending(replynodePacket, ...), then
\* sendMessage(findnodePacket, ...)
FindNode(r, viaExit) ==
  /\ Alive
  /\ addPending(r, replynodePacket, viaExit)
  /\ UNCHANGED <<now, tpc, plist, replyCh, matchedCh, deadline, ret, nodes,
                 out, replied, nread, inbox, delivered, acceptedAt,
                 pongInTime, gotData>>
  /\ UNCHANGED gvars

\* what findnode returns once err := <-errc has been read
findnodeResult(acc, err) == IF err # ErrNil THEN <<>> ELSE acc

\* err := <-errc, and the return
CallerRecv(r) ==
  /\ Alive
  /\ cpc[r] = "wait"
  /\ errch[r] # <<>>
  /\ ret' = [ret EXCEPT ![r] = Head(errch[r])]
  /\ errch' = [errch EXCEPT ![r] = Tail(@)]
  /\ out' = [out EXCEPT ![r] = IF typ[r] = replynodePacket
                               THEN findnodeResult(nodes[r], Head(errch[r]))
                               ELSE @]
  /\ cpc' = [cpc EXCEPT ![r] = "done"]
  /\ UNCHANGED <<now, tpc, plist, pendingCh, replyCh, matchedCh, typ,
                 deadline, nodes, rpc, replied, nread, inbox, delivered,
                 acceptedAt, pongInTime, gotData>>
  /\ UNCHANGED gvars

(***************************************************************************)
(* The read loop                                                           *)
(***************************************************************************)
\* a panic in the read loop's goroutine ends the process: nothing of the
\* transport remains
Crashed ==
  /\ rpc' = "crashed"
  /\ tpc' = "clear"
  /\ plist' = <<>>
  /\ pendingCh' = <<>>
  /\ replyCh' = <<>>
  /\ matchedCh' = <<>>
  /\ typ' = [r \in Reqs |-> 0]
  /\ cpc' = [r \in Reqs |-> "idle"]
  /\ errch' = [r \in Reqs |-> <<>>]
  /\ deadline' = [r \in Reqs |-> 0]
  /\ ret' = [r \in Reqs |-> "none"]
  /\ nodes' = [r \in Reqs |-> <<>>]
  /\ out' = [r \in Reqs |-> <<>>]
  /\ replied' = 0
  /\ inbox' = {}
  /\ delivered' = [r \in Reqs |-> <<>>]
  /\ acceptedAt' = [r \in Reqs |-> -1]
  /\ pongInTime' = [r \in Reqs |-> FALSE]
  /\ gotData' = [r \in Reqs |-> <<>>]
  /\ UNCHANGED <<now, nread>>

\* handleRequest(buf, from) up to the point where the loop reads again or
\* blocks: decodePacket, then pack.handle
handleRequest(buf) ==
  LET dec == decodePacket(buf)
  IN IF dec.res = "panic"
     THEN Crashed
     ELSE IF dec.res = "error" \/ expire(0)
     THEN \* the error is logged
          /\ rpc' = "read"
          /\ UNCHANGED <<replied, replyCh>>
     ELSE IF dec.typ \in {pingPacket, findnodePacket}
     THEN \* ping: send a pong; findnode: bondNode, send a replynode
          /\ rpc' = "read"
          /\ replied' = replied + 1
          /\ UNCHANGED replyCh
     ELSE \* pong, replynode: handleReply sends on t.gotreply
          /\ Len(replyCh) < ChanCap
          /\ replyCh' = Append(replyCh, [typ |-> dec.typ, data |-> buf.nodes])
          /\ rpc' = "waitmatch"
          /\ UNCHANGED replied

\* ReadFromUDP returns a datagram sent by the environment
ReadDatagram(d) ==
  /\ rpc = "read"
  /\ nread < MaxRecv
  /\ IF decodePacket(d).res = "panic"
     THEN /\ handleRequest(d)
          /\ UNCHANGED gvars
     ELSE /\ nread' = nread + 1
          /\ handleRequest(d)
          /\ UNCHANGED <<now, tpc, plist, pendingCh, matchedCh, typ, cpc,
                         errch, deadline, ret, nodes, out, inbox, delivered,
                         acceptedAt, pongInTime, gotData>>
          /\ UNCHANGED gvars

\* ReadFromUDP returns the pong a live target sent in answer to ping call r
ReadPong(r) ==
  /\ rpc = "read"
  /\ r \in inbox
  /\ inbox' = inbox \ {r}
  /\ pongInTime' = [pongInTime EXCEPT ![r] = (acceptedAt[r] = -1 \/ now <= deadline[r])]
  /\ handleRequest(PongDgram)
  /\ UNCHANGED <<now, tpc, plist, pendingCh, matchedCh, typ, cpc, errch,
                 deadline, ret, nodes, out, nread, delivered, acceptedAt,
                 gotData>>
  /\ UNCHANGED gvars

\* ReadFromUDP returns io.EOF: logged, the loop reads again
ReadEOF ==
  /\ rpc = "read"
  /\ nread < MaxRecv
  /\ nread' = nread + 1
  /\ UNCHANGED <<now, tpc, plist, pendingCh, replyCh, matchedCh, typ, cpc,
                 errch, deadline, ret, nodes, out, rpc, replied, inbox,
                 delivered, acceptedAt, pongInTime, gotData>>
  /\ UNCHANGED gvars

\* ReadFromUDP returns another error: the loop goes to send on t.exit
ReadError ==
  /\ rpc = "read"
  /\ nread < MaxRecv
  /\ nread' = nread + 1
  /\ rpc' = "exiting"
  /\ UNCHANGED <<now, tpc, plist, pendingCh, replyCh, matchedCh, typ, cpc,
                 errch, deadline, ret, nodes, out, replied, inbox,
                 delivered, acceptedAt, pongInTime, gotData>>
  /\ UNCHANGED gvars

\* handleReply: return <-ch; the handler reports errPacketHandle on false
ReplyMatched ==
  /\ rpc = "waitmatch"
  /\ matchedCh # <<>>
  /\ matchedCh' = Tail(matchedCh)
  /\ rpc' = "read"
  /\ UNCHANGED <<now, tpc, plist, pendingCh, replyCh, typ, cpc, errch,
                 deadline, ret, nodes, out, replied, nread, inbox,
                 delivered, acceptedAt, pongInTime, gotData>>
  /\ UNCHANGED gvars

(***************************************************************************)
(* The clock                                                               *)
(***************************************************************************)
\* time passes: a minute at a time up to the first deadline, then by seconds
Tick(d) ==
  /\ Alive
  /\ now + d <= MaxTime
  /\ d = 1 => now >= Minute
  /\ now' = now + d
  /\ UNCHANGED <<tpc, plist, pendingCh, replyCh, matchedCh, typ, cpc, errch,
                 deadline, ret, nodes, out, rpc, replied, nread, inbox,
                 delivered, acceptedAt, pongInTime, gotData>>
  /\ UNCHANGED gvars

\* the registry loop waits in select and neither channel holds an event
LoopIdle == tpc = "select" /\ pendingCh = <<>> /\ replyCh = <<>>

\* the clock advances while the registry loop is idle
TimelyTick(d) ==
  /\ LoopIdle
  /\ Tick(d)

(***************************************************************************)
(* Specification of the discovery transport                                *)
(***************************************************************************)
DiscoverInit ==
  /\ now = 0
  /\ tpc = "clear"
  /\ plist = <<>>
  /\ pendingCh = <<>>
  /\ replyCh = <<>>
  /\ matchedCh = <<>>
  /\ typ = [r \in Reqs |-> 0]
  /\ cpc = [r \in Reqs |-> "idle"]
  /\ errch = [r \in Reqs |-> <<>>]
  /\ deadline = [r \in Reqs |-> 0]
  /\ ret = [r \in Reqs |-> "none"]
  /\ nodes = [r \in Reqs |-> <<>>]
  /\ out = [r \in Reqs |-> <<>>]
  /\ rpc = "read"
  /\ replied = 0
  /\ nread = 0
  /\ inbox = {}
  /\ delivered = [r \in Reqs |-> <<>>]
  /\ acceptedAt = [r \in Reqs |-> -1]
  /\ pongInTime = [r \in Reqs |-> FALSE]
  /\ gotData = [r \in Reqs |-> <<>>]

(***************************************************************************)
(* Messages and their wire form                                            *)
(***************************************************************************)
Msg(t, id, data) == [MsgTyp |-> t, ID |-> id, Data |-> data]
NoMsg == Msg(0, EmptyID, 0)

\* msg.encodeMsg(): the JSON text of the message
encodeMsg(msg) == <<"json", msg.MsgTyp, msg.ID, msg.Data>>

\* bytes that are not JSON, a failed Read, a Read at end of stream, nothing
Garbage == <<"garbage">>
ReadErr == <<"readerr">>
EofBytes == <<"eof">>
NoBytes == <<"none">>

\* decodeMsg(buf): the message and whether the decoder reported an error
decodeMsg(buf) ==
  IF buf[1] = "json"
  THEN [err |-> FALSE, msg |-> Msg(buf[2], buf[3], buf[4])]
  ELSE [err |-> TRUE, msg |-> NoMsg]

\* a handshake that takes a decoded message of any type as the response
handshakeAnyType(rd) ==
  IF rd = ReadErr THEN [rid |-> EmptyID, err |-> TRUE]
  ELSE [rid |-> decodeMsg(rd).msg.ID, err |-> FALSE]

\* Node.handshake after c.Write(req): the result of c.Read and decodeMsg
handshake(rd) ==
  IF rd = ReadErr THEN [rid |-> EmptyID, err |-> TRUE]
  ELSE LET dec == decodeMsg(rd)
       IN IF dec.err THEN [rid |-> EmptyID, err |-> FALSE]  \* return "", nil
          ELSE IF dec.msg.MsgTyp # packRspGetID
               THEN [rid |-> EmptyID, err |-> TRUE]
               ELSE [rid |-> dec.msg.ID, err |-> FALSE]

\* Node.handShakeCheck: the result of c.Read and decodeMsg
handShakeCheck(rd) ==
  IF rd = ReadErr THEN [rid |-> EmptyID, err |-> TRUE]
  ELSE LET dec == decodeMsg(rd)
       IN IF dec.err THEN [rid |-> EmptyID, err |-> TRUE]
          ELSE IF dec.msg.MsgTyp # packReqGetID
               THEN [rid |-> EmptyID, err |-> TRUE]
               ELSE [rid |-> dec.msg.ID, err |-> FALSE]

\* what a peer may send in answer to the identity request
Responses ==
  {ReadErr, Garbage, encodeMsg(Msg(packReqGetID, 1, 0)),
   encodeMsg(Msg(packBlockData, 1, 1))}
  \cup {encodeMsg(Msg(packRspGetID, id, 0)) : id \in PeerIds}

\* what a peer may send first on a socket it opened
FirstMsgs ==
  {ReadErr, Garbage, encodeMsg(Msg(packRspGetID, 1, 0)),
   encodeMsg(Msg(packHeartBeat, 1, 0))}
  \cup {encodeMsg(Msg(packReqGetID, id, 0)) : id \in PeerIds}

\* what a read of the receive loop may return; the Data of a BlockData
\* message is an encoded block or (0) bytes Block.Decode rejects
RecvEvents ==
  {ReadErr, EofBytes, Garbage}
  \cup {encodeMsg(Msg(t, 1, 0)) : t \in {packReqGetID, packHeartBeat}}
  \cup {encodeMsg(Msg(packBlockData, 1, b)) : b \in {0, 1}}

(***************************************************************************)
(* The connection pool                                                     *)
(***************************************************************************)
NewConn == [read |-> NoSock, readable |-> FALSE, write |-> NoSock,
            writable |-> FALSE, broadcast |-> 0]

\* a lookup that finds no entry
lookupMiss(s, id) == 0

\* conn, ok = cp.set[id]
lookup(s, id) == s[id]

\* an add that makes a new connection object on every call
poolAddReplace(s, cs, id, ctyp, c) ==
  LET p == Len(cs) + 1
      c0 == [NewConn EXCEPT !.broadcast = p]
      c1 == IF ctyp = ctypRead
            THEN [c0 EXCEPT !.read = c, !.readable = TRUE]
            ELSE c0
      c2 == IF ctyp = ctypWrite
            THEN [c1 EXCEPT !.write = c, !.writable = TRUE]
            ELSE c1
  IN [set |-> [s EXCEPT ![id] = p], conns |-> Append(cs, c2), conn |-> p]

\* connPool.add(id, ctyp, c) under cp.mux: the pool after the call and the
\* pointer returned; a new entry gets a channel of its own, made by
\* make(chan message)
poolAdd(s, cs, id, ctyp, c) ==
  LET found == lookup(s, id)
      p == IF found = 0 THEN Len(cs) + 1 ELSE found
      cs1 == IF found = 0
             THEN Append(cs, [NewConn EXCEPT !.broadcast = p])
             ELSE cs
      c1 == IF ctyp = ctypRead
            THEN [cs1[p] EXCEPT !.read = c, !.readable = TRUE]
            ELSE cs1[p]
      c2 == IF ctyp = ctypWrite
            THEN [c1 EXCEPT !.write = c, !.writable = TRUE]
            ELSE c1
  IN [set |-> [s EXCEPT ![id] = p], conns |-> [cs1 EXCEPT ![p] = c2], conn |-> p]

\* the broadcast bus (package event, outside the sources): Subcribe(ch)
\* registers a channel; Send(msg) hands msg once to every channel registered
\* when it is called and returns when each has been received
busSubcribe(s, ch) == Append(s, ch)
busSend(s) == 1..Len(s)

AppendTo(w, sock, frame) == [w EXCEPT ![sock] = Append(@, frame)]

\* tasks are numbered in the order they start
CanStart(t) == role[t] = "none" /\ (IF t = 1 THEN TRUE ELSE role[t - 1] # "none")

(***************************************************************************)
(* Node.connect                                                            *)
(***************************************************************************)
\* the dial loop until net.DialTimeout succeeds, then handshake up to its
\* c.Read: c.Write(req.encodeMsg()), and the peer answers with b
Connect(t, b) ==
  /\ CanStart(t)
  /\ role' = [role EXCEPT ![t] = "out"]
  /\ gpc' = [gpc EXCEPT ![t] = "handshake"]
  /\ hsbuf' = [hsbuf EXCEPT ![t] = b]
  /\ written' = AppendTo(written, Sock(t), encodeMsg(Msg(packReqGetID, SelfID, 0)))
  /\ UNCHANGED <<set, conns, rid, conn, rsock, bmsg, subs, lpc, todo, cur,
                 nblocks, nmsg, closed, chain, chainPending, activeAt>>
  /\ UNCHANGED dvars

\* handshake's c.Read returns; on an error connect returns (closing c),
\* otherwise conn := n.pool.add(rid, 2, c)
Handshake(t) ==
  /\ role[t] = "out"
  /\ gpc[t] = "handshake"
  /\ LET h == handshake(hsbuf[t])
     IN IF h.err
        THEN /\ gpc' = [gpc EXCEPT ![t] = "failed"]
             /\ closed' = closed \cup {Sock(t)}
             /\ UNCHANGED <<set, conns, rid, conn>>
        ELSE LET a == poolAdd(set, conns, h.rid, ctypWrite, Sock(t))
             IN /\ gpc' = [gpc EXCEPT ![t] = "subscribe"]
                /\ rid' = [rid EXCEPT ![t] = h.rid]
                /\ set' = a.set
                /\ conns' = a.conns
                /\ conn' = [conn EXCEPT ![t] = a.conn]
                /\ UNCHANGED closed
  /\ UNCHANGED <<role, hsbuf, rsock, bmsg, subs, lpc, todo, cur, nblocks,
                 nmsg, written, chain, chainPending, activeAt>>
  /\ UNCHANGED dvars

\* n.broad.Subcribe(conn.broadcast)
Subscribe(t) ==
  /\ gpc[t] = "subscribe"
  /\ subs' = busSubcribe(subs, conns[conn[t]].broadcast)
  /\ gpc' = [gpc EXCEPT ![t] = "loop"]
  /\ UNCHANGED <<set, conns, role, hsbuf, rid, conn, rsock, bmsg, lpc, todo,
                 cur, nblocks, nmsg, written, closed, chain, chainPending,
                 activeAt>>
  /\ UNCHANGED dvars

\* case msg := <-conn.broadcast: the bus hands the message of the running
\* Send to a task waiting on a subscribed channel
Deliver(i, t) ==
  /\ lpc = "sending"
  /\ i \in todo
  /\ gpc[t] = "loop"
  /\ conns[conn[t]].broadcast = subs[i]
  /\ todo' = todo \ {i}
  /\ bmsg' = [bmsg EXCEPT ![t] = cur]
  /\ gpc' = [gpc EXCEPT ![t] = "write"]
  /\ UNCHANGED <<set, conns, role, hsbuf, rid, conn, rsock, subs, lpc, cur,
                 nblocks, nmsg, written, closed, chain, chainPending,
                 activeAt>>
  /\ UNCHANGED dvars

\* connection.send(data) on a copy of *conn: the socket written, if any
sendTarget(c) == IF c.writable THEN c.write ELSE NoSock

\* data := msg.encodeMsg(); conn.send(data)
WriteMsg(t) ==
  /\ gpc[t] = "write"
  /\ LET sock == sendTarget(conns[conn[t]])
     IN written' = IF sock # NoSock /\ sock \notin closed
                   THEN AppendTo(written, sock, encodeMsg(bmsg[t]))
                   ELSE written
  /\ bmsg' = [bmsg EXCEPT ![t] = NoMsg]
  /\ gpc' = [gpc EXCEPT ![t] = "loop"]
  /\ UNCHANGED <<set, conns, role, hsbuf, rid, conn, rsock, subs, lpc, todo,
                 cur, nblocks, nmsg, closed, chain, chainPending, activeAt>>
  /\ UNCHANGED dvars

(***************************************************************************)
(* Node.startListen and Node.handleAccept                                  *)
(***************************************************************************)
\* lsn.Accept() returns a socket, go n.handleAccept(c); the peer sends its
\* first bytes b (or the connection fails)
Accept(t, b) ==
  /\ CanStart(t)
  /\ role' = [role EXCEPT ![t] = "in"]
  /\ gpc' = [gpc EXCEPT ![t] = "check"]
  /\ hsbuf' = [hsbuf EXCEPT ![t] = b]
  /\ UNCHANGED <<set, conns, rid, conn, rsock, bmsg, subs, lpc, todo, cur,
                 nblocks, nmsg, written, closed, chain, chainPending,
                 activeAt>>
  /\ UNCHANGED dvars

\* handShakeCheck's c.Read returns; on an error handleAccept returns
\* (closing c), otherwise the response is written and
\* conn := n.pool.add(rid, 1, c)
HandShakeCheck(t) ==
  /\ role[t] = "in"
  /\ gpc[t] = "check"
  /\ LET h == handShakeCheck(hsbuf[t])
     IN IF h.err
        THEN /\ gpc' = [gpc EXCEPT ![t] = "failed"]
             /\ closed' = closed \cup {Sock(t)}
             /\ UNCHANGED <<set, conns, rid, conn, written>>
        ELSE LET p == poolAdd(set, conns, h.rid, ctypRead, Sock(t))
             IN /\ gpc' = [gpc EXCEPT ![t] = "recv"]
                /\ written' = AppendTo(written, Sock(t),
                                       encodeMsg(Msg(packRspGetID, SelfID, 0)))
                /\ rid' = [rid EXCEPT ![t] = h.rid]
                /\ set' = p.set
                /\ conns' = p.conns
                /\ conn' = [conn EXCEPT ![t] = p.conn]
                /\ UNCHANGED closed
  /\ UNCHANGED <<role, hsbuf, rsock, bmsg, subs, lpc, todo, cur, nblocks,
                 nmsg, chain, chainPending, activeAt>>
  /\ UNCHANGED dvars

\* connection.recv(buf) on a copy of *conn: the socket read, if any
recvSource(c) == IF c.readable THEN c.read ELSE NoSock

\* handleAccept's loop calls conn.recv(buf): the value receiver copies
\* *conn, and the call blocks in Read on the copy's read side
RecvCall(t) ==
  /\ gpc[t] = "recv"
  /\ LET sock == recvSource(conns[conn[t]])
     IN IF sock = NoSock
        THEN \* "conn is unreadale": continue
             UNCHANGED <<gpc, rsock>>
        ELSE /\ gpc' = [gpc EXCEPT ![t] = "reading"]
             /\ rsock' = [rsock EXCEPT ![t] = sock]
  /\ UNCHANGED <<set, conns, role, hsbuf, rid, conn, bmsg, subs, lpc, todo,
                 cur, nblocks, nmsg, written, closed, chain, chainPending,
                 activeAt>>
  /\ UNCHANGED dvars

\* the Read of conn.recv returns ev, then handleMessage
Recv(t, ev) ==
  /\ gpc[t] = "reading"
  /\ nmsg < MaxMsg
  /\ nmsg' = nmsg + 1
  /\ rsock' = [rsock EXCEPT ![t] = NoSock]
  /\ LET rd == IF rsock[t] \in closed THEN ReadErr ELSE ev
         dec == decodeMsg(rd)
     IN IF rd = EofBytes
        THEN \* errConnClosed: break, and the deferred c.Close()
             /\ gpc' = [gpc EXCEPT ![t] = "closed"]
             /\ closed' = closed \cup {Sock(t)}
             /\ UNCHANGED <<written, chain>>
        ELSE IF rd = ReadErr \/ dec.err
        THEN \* continue, or handleMessage returns the decode error
             /\ gpc' = [gpc EXCEPT ![t] = "recv"]
             /\ UNCHANGED <<closed, written, chain>>
        ELSE IF dec.msg.MsgTyp = packReqGetID
        THEN \* conn.read.Write(msg.encodeMsg())
             /\ written' = LET w == conns[conn[t]].read
                           IN IF w \in closed THEN written
                              ELSE AppendTo(written, w,
                                            encodeMsg(Msg(packRspGetID, SelfID, 0)))
             /\ gpc' = [gpc EXCEPT ![t] = "recv"]
             /\ UNCHANGED <<closed, chain>>
        ELSE IF dec.msg.MsgTyp = packBlockData /\ dec.msg.Data # 0
        THEN \* block.Decode(msg.Data) succeeds; n.blockChain.add(block)
             /\ chain' = Append(chain, dec.msg.Data)
             /\ gpc' = [gpc EXCEPT ![t] = "recv"]
             /\ UNCHANGED <<closed, written>>
        ELSE /\ gpc' = [gpc EXCEPT ![t] = "recv"]
             /\ UNCHANGED <<closed, written, chain>>
  /\ UNCHANGED <<set, conns, role, hsbuf, rid, conn, bmsg, subs, lpc, todo,
                 cur, nblocks, chainPending, activeAt>>
  /\ UNCHANGED dvars

(***************************************************************************)
(* Node.loop and the broadcast bus                                         *)
(***************************************************************************)
\* the connect tasks that have subscribed
Subscribed == {t \in Tasks : gpc[t] \in {"loop", "write"}}

\* case b := <-n.producer.blockCh: sign, frame, n.broad.Send(msg) begins
Produce ==
  /\ lpc = "idle"
  /\ nblocks < MaxBlocks
  /\ nblocks' = nblocks + 1
  /\ cur' = Msg(packBlockData, SelfID, nblocks + 1)
  /\ todo' = busSend(subs)
  /\ activeAt' = [activeAt EXCEPT ![nblocks + 1] = Subscribed]
  /\ lpc' = "sending"
  /\ UNCHANGED <<set, conns, role, gpc, hsbuf, rid, conn, rsock, bmsg, subs,
                 nmsg, written, closed, chain, chainPending>>
  /\ UNCHANGED dvars

\* n.broad.Send(msg) returns; n.blockChain.pending(*b)
SendDone ==
  /\ lpc = "sending"
  /\ todo = {}
  /\ chainPending' = Append(chainPending, cur.Data)
  /\ cur' = NoMsg
  /\ lpc' = "idle"
  /\ UNCHANGED <<set, conns, role, gpc, hsbuf, rid, conn, rsock, bmsg, subs,
                 todo, nblocks, nmsg, written, closed, chain, activeAt>>
  /\ UNCHANGED dvars

GossipInit ==
  /\ set = [id \in Ids |-> 0]
  /\ conns = <<>>
  /\ role = [t \in Tasks |-> "none"]
  /\ gpc = [t \in Tasks |-> "idle"]
  /\ hsbuf = [t \in Tasks |-> NoBytes]
  /\ rid = [t \in Tasks |-> EmptyID]
  /\ conn = [t \in Tasks |-> 0]
  /\ rsock = [t \in Tasks |-> NoSock]
  /\ bmsg = [t \in Tasks |-> NoMsg]
  /\ subs = <<>>
  /\ lpc = "idle"
  /\ todo = {}
  /\ cur = NoMsg
  /\ nblocks = 0
  /\ nmsg = 0
  /\ written = [s \in Tasks |-> <<>>]
  /\ closed = {}
  /\ chain = <<>>
  /\ chainPending = <<>>
  /\ activeAt = [b \in Blocks |-> {}]

GossipNext ==
  \/ \E t \in Tasks, b \in Responses : Connect(t, b)
  \/ \E t \in Tasks : Handshake(t)
  \/ \E t \in Tasks : Subscribe(t)
  \/ \E i \in 1..Len(subs), t \in Tasks : Deliver(i, t)
  \/ \E t \in Tasks : WriteMsg(t)
  \/ \E t \in Tasks, b \in FirstMsgs : Accept(t, b)
  \/ \E t \in Tasks : HandShakeCheck(t)
  \/ \E t \in Tasks : RecvCall(t)
  \/ \E t \in Tasks, ev \in RecvEvents : Recv(t, ev)
  \/ Produce
  \/ SendDone

vars == <<dvars, gvars>>

Init == DiscoverInit /\ GossipInit

DiscoverSteps ==
  \/ ListClear
  \/ RecvPending
  \/ RecvReply
  \/ \E r \in Reqs, live \in BOOLEAN, viaExit \in BOOLEAN : Ping(r, live, viaExit)
  \/ \E r \in Reqs, viaExit \in BOOLEAN : WaitPing(r, viaExit)
  \/ \E r \in Reqs, viaExit \in BOOLEAN : FindNode(r, viaExit)
  \/ \E r \in Reqs : CallerRecv(r)
  \/ \E d \in Datagrams : ReadDatagram(d)
  \/ \E r \in Reqs : ReadPong(r)
  \/ ReadEOF
  \/ ReadError
  \/ ReplyMatched

DiscoverNext == DiscoverSteps \/ \E d \in {1, Minute} : Tick(d)

DiscoverSpec == Init /\ [][DiscoverNext]_vars

\* the registry loop, the read loop and the callers are goroutines the Go
\* scheduler runs whenever they can take a step; the clock advances
DiscoverFairness ==
  /\ WF_vars(ListClear)
  /\ WF_vars(RecvPending)
  /\ WF_vars(RecvReply)
  /\ WF_vars(ReplyMatched)
  /\ WF_vars(\E r \in Reqs : CallerRecv(r))
  /\ WF_vars(\E d \in {1, Minute} : Tick(d))

FairDiscoverSpec == DiscoverSpec /\ DiscoverFairness

\* the discovery transport with a registry loop that is never held up: the
\* clock advances only while the loop waits in select with nothing to receive
TimelyNext == DiscoverSteps \/ \E d \in {1, Minute} : TimelyTick(d)

TimelyDiscoverSpec == Init /\ [][TimelyNext]_vars

GossipSpec == Init /\ [][GossipNext]_vars

(***************************************************************************)
(* Properties of the discovery transport                                   *)
(***************************************************************************)
InList(l, r) == \E i \in 1..Len(l) : l[i] = r
Occurrences(l, r) == Cardinality({i \in 1..Len(l) : l[i] = r})
Last(s) == s[Len(s)]

\* the registry loop sends a result to call r in this step
Resolves(r) == Alive' /\ delivered'[r] # delivered[r]

\* C1: the registry loop sends at most one result (nil or the timeout error)
\* on a request's result channel, and the step that sends it is the step
\* that removes the request from the list: the request is in the list
\* before the step, once, and not after it.
C1_ResolvedOnce ==
  [][\A r \in Reqs :
       /\ Len(delivered'[r]) <= 1
       /\ Occurrences(plist', r) <= 1
       /\ Resolves(r) =>
            /\ InList(plist, r)
            /\ ~InList(plist', r)
            /\ Len(delivered'[r]) = Len(delivered[r]) + 1
            /\ Last(delivered'[r]) \in {ErrNil, errListTimeout}
            /\ errch'[r] = Append(errch[r], Last(delivered'[r]))]_vars

\* a request was resolved by a reply and another one by the sweep
C1_Witness ==
  \E r1, r2 \in Reqs :
     /\ delivered[r1] = <<ErrNil>> /\ ~InList(plist, r1)
     /\ delivered[r2] = <<errListTimeout>> /\ ~InList(plist, r2)

\* C2: a caller blocked on its result channel whose request's deadline has
\* elapsed eventually receives a result, with no further event needed.
C2_EventuallyTimedOut ==
  \A r \in Reqs :
     (cpc[r] = "wait" /\ acceptedAt[r] >= 0 /\ deadline[r] < now)
        ~> (cpc[r] = "done" \/ ~Alive)

\* C3: a ping whose pong reached the read loop before the request's
\* deadline returns nil.
C3_PongResolvesPing ==
  \A r \in Reqs : (pongInTime[r] /\ cpc[r] = "done") => ret[r] = ErrNil

\* C4: the loop gives an accepted request the deadline (clock at acceptance)
\* + one minute, the deadline then stays, and the timeout error is sent
\* only in a step where the deadline is strictly earlier than the clock.
C4_NoEarlyTimeout ==
  [][\A r \in Reqs :
       Alive' =>
         /\ (acceptedAt[r] = -1 /\ acceptedAt'[r] # -1) =>
               (acceptedAt'[r] = now /\ deadline'[r] = now + Minute)
         /\ acceptedAt[r] # -1 =>
               (deadline'[r] = deadline[r] /\ acceptedAt'[r] = acceptedAt[r])
         /\ (Resolves(r) /\ Last(delivered'[r]) = errListTimeout) =>
               (acceptedAt[r] # -1 /\ deadline[r] = acceptedAt[r] + Minute
                /\ deadline[r] < now)]_vars

\* a request was resolved with the timeout error
C4_Witness ==
  \E r \in Reqs : delivered[r] = <<errListTimeout>> /\ now = deadline[r] + 1

\* C9: a malformed datagram makes decodePacket return an error, is dropped
\* with no reply sent and nothing handed to the registry, and the read loop
\* reads again.
C9_MalformedDropped ==
  [][\A d \in MalformedDgrams :
       ReadDatagram(d) =>
         /\ decodePacket(d).res = "error"
         /\ rpc' = "read"
         /\ UNCHANGED <<plist, pendingCh, replyCh, replied>>]_vars

\* the nodes of a reply that pass the validity check, in reply order
ValidInOrder(ns) == SelectSeq(ns, LAMBDA n : n.valid)

\* C10: findnode returns the valid nodes of the one replynode its callback
\* accepted, in reply order (none when the reply has no nodes), and the
\* empty sequence when its request ended with an error.
C10_FindnodeResult ==
  \A r \in Reqs :
     (cpc[r] = "done" /\ typ[r] = replynodePacket) =>
        /\ ret[r] = ErrNil =>
              (Len(gotData[r]) = 1 /\ out[r] = ValidInOrder(gotData[r][1]))
        /\ ret[r] # ErrNil => (gotData[r] = <<>> /\ out[r] = <<>>)

\* a findnode returned the two valid nodes of a three-node reply
C10_Witness ==
  \E r \in Reqs :
     /\ cpc[r] = "done" /\ typ[r] = replynodePacket /\ ret[r] = ErrNil
     /\ gotData[r] = <<(<<NodeC, NodeB, NodeA>>)>>
     /\ out[r] = <<NodeC, NodeA>>


\* the loop services the reply at the head of t.gotreply in this step
ServesReply == RecvReply /\ Len(matchedCh') = Len(matchedCh) + 1

\* a request of the reply's type is in the list
SameTypeListed(l, rep) == \E i \in 1..Len(l) : typ[l[i]] = rep.typ

\* C11: the matched flag the loop returns for a reply is true exactly when
\* the list held a request of the reply's type when the reply was serviced.
C11_MatchedIffSameType ==
  [][ServesReply =>
        (Last(matchedCh') <=> SameTypeListed(plist, Head(replyCh)))]_vars

\* the sweep has run in this step and the loop goes on to its select
Swept == ListClear /\ tpc' = "select"

\* C12: after the sweep that precedes the servicing of an event, no request
\* whose deadline is earlier than the clock remains in the list, and every
\* request the sweep took out got the timeout error.
C12_SweepRemovesAllExpired ==
  [][Swept =>
        /\ \A i \in 1..Len(plist') : ~(deadline[plist'[i]] < now)
        /\ \A i \in 1..Len(plist) :
              deadline[plist[i]] < now =>
                 delivered'[plist[i]] = Append(delivered[plist[i]], errListTimeout)]_vars

\* C13: when a reply is serviced, every listed request of the reply's type
\* whose callback accepts the payload is resolved with nil and taken out of
\* the list in that step.
C13_AllSameTypeResolved ==
  [][ServesReply =>
        \A i \in 1..Len(plist) :
           (typ[plist[i]] = Head(replyCh).typ
            /\ callback(plist[i], Head(replyCh).data)) =>
              /\ ~InList(plist', plist[i])
              /\ delivered'[plist[i]] = Append(delivered[plist[i]], ErrNil)]_vars

\* C14: the list holds the requests in the order they were registered (the
\* order of their numbers) and accepted, and a reply resolves no request while an earlier-listed request of the
\* reply's type whose callback accepts it stays in the list.
C14_FirstRegisteredFirstMatched ==
  [][/\ \A i, j \in 1..Len(plist') :
          i < j => plist'[i] < plist'[j]
     /\ ServesReply =>
          \A i, j \in 1..Len(plist) :
             (i < j
              /\ typ[plist[i]] = Head(replyCh).typ
              /\ callback(plist[i], Head(replyCh).data)
              /\ ~InList(plist', plist[j])) => ~InList(plist', plist[i])]_vars

\* two pings were accepted at clock 0; the only pong, read after the
\* deadline had passed, resolved the first and left the second listed
C14_Witness ==
  /\ typ[1] = pongPacket /\ typ[2] = pongPacket
  /\ acceptedAt[1] = 0 /\ acceptedAt[2] = 0
  /\ nread = 0 /\ inbox = {} /\ ~pongInTime[1] /\ ~pongInTime[2]
  /\ delivered[1] = <<ErrNil>>
  /\ delivered[2] = <<>> /\ InList(plist, 2)

\* C15: after a read error other than io.EOF the read loop terminates.
C15_ReadErrorTerminates == (rpc = "exiting") ~> (rpc = "done")

\* C18: the registry loop is never blocked in a send: a result channel
\* holds at most one value and gets at most one from the loop, and the
\* matched channel of a reply holds at most one value.
C18_LoopNeverBlocks ==
  /\ tpc # "stuck"
  /\ Len(matchedCh) <= ResultCap
  /\ \A r \in Reqs : Len(errch[r]) <= ResultCap /\ Len(delivered[r]) <= 1

\* the loop is back at its select while a timeout result lies unread in
\* one result channel and a reply's matched flag in another channel
C18_Witness ==
  /\ tpc = "select"
  /\ matchedCh # <<>>
  /\ \E r \in Reqs : errch[r] = <<errListTimeout>> /\ cpc[r] = "wait"

(***************************************************************************)
(* Properties of the gossip node                                           *)
(***************************************************************************)
\* the tasks whose connPool.add for identity id has returned
AddedIn(id) ==
  {t \in Tasks : role[t] = "in" /\ gpc[t] \in {"recv", "reading", "closed"} /\ rid[t] = id}
AddedOut(id) ==
  {t \in Tasks : role[t] = "out" /\ gpc[t] \in {"subscribe", "loop", "write"}
                 /\ rid[t] = id}
Pooled == {id \in Ids : set[id] # 0}

\* C5: the pool holds one entry per identity added, no entry is shared by
\* two identities, every add for an identity returned that identity's
\* entry, and once an inbound and an outbound add for the same identity
\* have both returned the entry is readable and writable with the read side
\* an inbound socket and the write side an outbound socket of that identity.
C5_OneEntryPerIdentity ==
  /\ Len(conns) = Cardinality(Pooled)
  /\ \A id1, id2 \in Pooled : set[id1] = set[id2] => id1 = id2
  /\ \A id \in Ids :
       /\ id \in Pooled <=> AddedIn(id) \cup AddedOut(id) # {}
       /\ \A t \in AddedIn(id) \cup AddedOut(id) : conn[t] = set[id]
       /\ (AddedIn(id) # {} /\ AddedOut(id) # {}) =>
             LET c == conns[set[id]]
             IN /\ c.readable /\ c.writable
                /\ c.read \in {Sock(t) : t \in AddedIn(id)}
                /\ c.write \in {Sock(t) : t \in AddedOut(id)}

\* an accepted socket and a dialled socket of one identity share an entry,
\* and another identity has an entry of its own
C5_Witness ==
  \E id \in Ids, t1, t2 \in Tasks :
     /\ t1 \in AddedIn(id) /\ t2 \in AddedOut(id)
     /\ conn[t1] = conn[t2]
     /\ conns[conn[t1]].read = Sock(t1) /\ conns[conn[t1]].readable
     /\ conns[conn[t1]].write = Sock(t2) /\ conns[conn[t1]].writable

\* the framed form of block b
BlockFrame(b) == encodeMsg(Msg(packBlockData, SelfID, b))

\* every connect task so far got a well-formed identity response
AllIdentified ==
  \A t \in Tasks :
     role[t] = "out" =>
        \E id \in PeerIds : hsbuf[t] = encodeMsg(Msg(packRspGetID, id, 0))

\* C6: with every handshake answered by an identity response, once the Send
\* of a block has returned and every forwarding task is back at its select,
\* the block's frame is on the socket of every connect task that was
\* subscribed when the block was published, and on the socket of no
\* connect task that was not.
C6_BlockReachesSubscribers ==
  \A b \in Blocks :
     (AllIdentified /\ InList(chainPending, b)
      /\ \A t \in Tasks : gpc[t] # "write") =>
        \A t \in Tasks :
           role[t] = "out" =>
              (t \in activeAt[b] <=> InList(written[Sock(t)], BlockFrame(b)))

\* the bytes read decode to a message whose type is not the expected one
WrongType(rd, expected) ==
  /\ ~decodeMsg(rd).err
  /\ decodeMsg(rd).msg.MsgTyp # expected

\* C7: a response of another type than packRspGetID makes handshake return
\* an error and connect return with the pool as it was; a first message of
\* another type than packReqGetID does the same to handShakeCheck and
\* handleAccept; a task that returned this way never touches the pool.
C7_WrongTypeLeavesPool ==
  [][\A t \in Tasks :
       /\ (Handshake(t) /\ WrongType(hsbuf[t], packRspGetID)) =>
             /\ handshake(hsbuf[t]).err
             /\ gpc'[t] = "failed"
             /\ UNCHANGED <<set, conns, conn, subs>>
       /\ (HandShakeCheck(t) /\ WrongType(hsbuf[t], packReqGetID)) =>
             /\ handShakeCheck(hsbuf[t]).err
             /\ gpc'[t] = "failed"
             /\ UNCHANGED <<set, conns, conn, subs>>
       /\ gpc[t] = "failed" => (gpc'[t] = "failed" /\ conn'[t] = 0)]_vars

\* a connect task and a handleAccept task both returned on a message of the
\* wrong type, and the pool is empty
C7_Witness ==
  \E t1, t2 \in Tasks :
     /\ role[t1] = "out" /\ gpc[t1] = "failed"
     /\ WrongType(hsbuf[t1], packRspGetID)
     /\ role[t2] = "in" /\ gpc[t2] = "failed"
     /\ WrongType(hsbuf[t2], packReqGetID)
     /\ conns = <<>>

\* C8: a response that does not decode makes the handshake fail: connect
\* returns, the socket is closed, and no pool entry holds the socket.
C8_MalformedResponseFails ==
  \A t \in Tasks :
     (role[t] = "out" /\ hsbuf[t] = Garbage /\ gpc[t] # "handshake") =>
        /\ gpc[t] = "failed"
        /\ Sock(t) \in closed
        /\ \A i \in 1..Len(conns) : conns[i].write # Sock(t)

\* task t's connPool.add returns in this step
InboundAdd(t) == HandShakeCheck(t) /\ gpc'[t] = "recv"
OutboundAdd(t) == Handshake(t) /\ gpc'[t] = "subscribe"

\* C16: an add for identity I returns I's entry with the given side set to
\* the given socket, leaves the entry's other side and its broadcast
\* channel as they were, and leaves every other entry and every other
\* identity's mapping unchanged; a first add makes an entry with a channel
\* no other entry has; no step ever changes an identity's entry or an
\* entry's channel.
C16_AddChangesOnlyItsSide ==
  [][/\ \A id \in Ids :
          set[id] # 0 =>
             /\ set'[id] = set[id]
             /\ conns'[set[id]].broadcast = conns[set[id]].broadcast
     /\ \A t \in Tasks :
          (InboundAdd(t) \/ OutboundAdd(t)) =>
             LET id == rid'[t]
                 p == set'[id]
                 before == IF set[id] = 0 THEN NewConn ELSE conns[set[id]]
             IN /\ conn'[t] = p
                /\ \A id2 \in Ids \ {id} : set'[id2] = set[id2]
                /\ \A i \in 1..Len(conns) : i # p => conns'[i] = conns[i]
                /\ Len(conns') = IF set[id] = 0 THEN Len(conns) + 1 ELSE Len(conns)
                /\ set[id] = 0 =>
                      \A i \in 1..Len(conns) :
                         conns[i].broadcast # conns'[p].broadcast
                /\ InboundAdd(t) =>
                      /\ conns'[p].read = Sock(t) /\ conns'[p].readable
                      /\ conns'[p].write = before.write
                      /\ conns'[p].writable = before.writable
                /\ OutboundAdd(t) =>
                      /\ conns'[p].write = Sock(t) /\ conns'[p].writable
                      /\ conns'[p].read = before.read
                      /\ conns'[p].readable = before.readable]_vars

\* an outbound add made the entry and its channel, the task subscribed the
\* channel, and a later inbound add for the same identity set the read side
C16_Witness ==
  \E t1, t2 \in Tasks :
     /\ role[t1] = "out" /\ role[t2] = "in" /\ t1 < t2
     /\ rid[t1] = rid[t2] /\ conn[t1] = 1 /\ conn[t2] = 1
     /\ subs = <<1>>
     /\ conns = <<[read |-> Sock(t2), readable |-> TRUE, write |-> Sock(t1),
                   writable |-> TRUE, broadcast |-> 1]>>

\* C17: no pool entry is marked readable with a read side that this node
\* has closed, nor writable with a closed write side.
C17_ClosedSocketLeavesPool ==
  \A i \in 1..Len(conns) :
     /\ conns[i].readable => conns[i].read \notin closed
     /\ conns[i].writable => conns[i].write \notin closed

\* C19: the conn.recv call of an accept task reads the socket that task
\* accepted.
C19_ReadsOwnSocket ==
  \A t \in Tasks : gpc[t] = "reading" => rsock[t] = Sock(t)

\* the entry whose fields task t's next step reads outside cp.mux: the copy
\* of *conn made by the call of conn.recv or conn.send (0: none)
ReadsEntry(t) == IF gpc[t] \in {"recv", "write"} THEN conn[t] ELSE 0

\* the existing entry whose fields task t's next step assigns inside
\* connPool.add (0: none, or an entry made by that call)
WritesEntry(t) ==
  IF role[t] = "out" /\ gpc[t] = "handshake" /\ ~handshake(hsbuf[t]).err
  THEN lookup(set, handshake(hsbuf[t]).rid)
  ELSE IF role[t] = "in" /\ gpc[t] = "check" /\ ~handShakeCheck(hsbuf[t]).err
  THEN lookup(set, handShakeCheck(hsbuf[t]).rid)
  ELSE 0

\* C20: no task is about to assign fields of an entry in connPool.add while
\* another task is about to read that entry's fields in conn.recv or
\* conn.send with nothing ordering the two steps.
C20_NoUnorderedAccess ==
  \A t1, t2 \in Tasks :
     (t1 # t2 /\ ReadsEntry(t1) # 0) => WritesEntry(t2) # ReadsEntry(t1)
====
